---- MODULE Spec2Model ----
(***************************************************************************)
(* Model of homework.py: a single-threaded bot that polls the homework     *)
(* review API and relays status changes to one Telegram chat.              *)
(*                                                                         *)
(* Encoding of Python / JSON values (tagged tuples, tag first):            *)
(*   None / null   <<"null">>                                              *)
(*   int n         <<"int", n>>                                            *)
(*   str s         <<"str", s>>                                            *)
(*   list          <<"list", <<v1, ..., vn>> >>                            *)
(*   dict          <<"dict", << <<k1, v1>>, ..., <<kn, vn>> >> >>          *)
(*                 (string keys, pairwise distinct, insertion order)       *)
(* The Russian message literals of the source are written in Latin         *)
(* transliteration, because TLA+ strings are ASCII.                        *)
(***************************************************************************)
EXTENDS Integers, Sequences, FiniteSets, TLC

VARIABLES env, pc, exitCode, timestamp, prevTimestamp, http, response,
          check_result, message, raised, sent, calls

vars == <<env, pc, exitCode, timestamp, prevTimestamp, http, response,
          check_result, message, raised, sent, calls>>

(***************************************************************************)
(* Bounds                                                                  *)
(***************************************************************************)
\* number of distinct current_date values the API may return
MaxDate == 2
\* maximal length of the homeworks list in a response
MaxHomeworks == 2

(***************************************************************************)
(* Python values                                                           *)
(***************************************************************************)
JNull == <<"null">>
JInt(n) == <<"int", n>>
JStr(s) == <<"str", s>>
JList(s) == <<"list", s>>
JDict(pairs) == <<"dict", pairs>>

\* a local name that has not been assigned yet
Unbound == <<"unbound">>

Tag(j) == j[1]
Val(j) == j[2]

\* bool(j)
Truthy(j) ==
    CASE Tag(j) = "null" -> FALSE
      [] Tag(j) = "int"  -> Val(j) # 0
      [] Tag(j) = "str"  -> Val(j) # ""
      [] Tag(j) = "list" -> Len(Val(j)) # 0
      [] Tag(j) = "dict" -> Len(Val(j)) # 0

\* type(j).__name__
TypeName(j) ==
    CASE Tag(j) = "null" -> "NoneType"
      [] Tag(j) = "int"  -> "int"
      [] Tag(j) = "str"  -> "str"
      [] Tag(j) = "list" -> "list"
      [] Tag(j) = "dict" -> "dict"

\* k in d, for a dict d
HasKey(d, k) == \E i \in 1..Len(Val(d)) : Val(d)[i][1] = k

\* d.get(k), for a dict d
DictGet(d, k) ==
    IF HasKey(d, k)
    THEN Val(d)[CHOOSE i \in 1..Len(Val(d)) : Val(d)[i][1] = k][2]
    ELSE JNull

Digits == <<"0", "1", "2", "3", "4", "5", "6", "7", "8", "9">>

RECURSIVE IntStr(_)
\* str(n) for a natural number n
IntStr(n) ==
    IF n < 10 THEN Digits[n + 1]
    ELSE IntStr(n \div 10) \o Digits[(n % 10) + 1]

\* str(j) as an f-string field renders it (scalars)
PyStr(j) ==
    CASE Tag(j) = "null" -> "None"
      [] Tag(j) = "int"  -> IntStr(Val(j))
      [] Tag(j) = "str"  -> Val(j)

\* repr(j) (scalars; strings without quote characters)
PyRepr(j) ==
    CASE Tag(j) = "null" -> "None"
      [] Tag(j) = "int"  -> IntStr(Val(j))
      [] Tag(j) = "str"  -> "'" \o Val(j) \o "'"

(***************************************************************************)
(* Exceptions and results of calls                                         *)
(***************************************************************************)
NoExc == [kind |-> "none", text |-> ""]
Exc(kind, text) == [kind |-> kind, text |-> text]

Ok(v) == [exc |-> NoExc, val |-> v]
Raise(kind, text) == [exc |-> Exc(kind, text), val |-> Unbound]

\* obj.get(...) on an object that is not a dict
NoGetAttr(j) ==
    Raise("AttributeError",
          "'" \o TypeName(j) \o "' object has no attribute 'get'")

(***************************************************************************)
(* Module constants                                                        *)
(***************************************************************************)
ENDPOINT == "https://practicum.yandex.ru/api/user_api/homework_statuses/"

HTTP_OK == 200

InitialFromDate == 1679119678

VerdictCodes == {"approved", "reviewing", "rejected"}

HOMEWORK_VERDICTS ==
    [s \in VerdictCodes |->
        CASE s = "approved"  -> "Rabota proverena: revyueru vsyo ponravilos. Ura!"
          [] s = "reviewing" -> "Rabota vzyata na proverku revyuerom."
          [] s = "rejected"  -> "Rabota proverena: u revyuera est zamechaniya."]

EnvNames == <<"PRACTICUM_TOKEN", "TELEGRAM_TOKEN", "TELEGRAM_CHAT_ID">>

(***************************************************************************)
(* check_tokens                                                            *)
(***************************************************************************)
\* d[k] = v on a dict kept as a sequence of <<key, value>> pairs: an
\* existing key keeps its position and takes the new value
DictSet(d, k, v) ==
    IF \E i \in 1..Len(d) : d[i][1] = k
    THEN [i \in 1..Len(d) |-> IF d[i][1] = k THEN <<k, v>> ELSE d[i]]
    ELSE Append(d, <<k, v>>)

\* the dict literal {PRACTICUM_TOKEN: 'PRACTICUM_TOKEN', ...}, keyed by the
\* VALUES of the three variables: equal values share one entry
TokenVariables(e) ==
    DictSet(DictSet(DictSet(<<>>, e[EnvNames[1]], EnvNames[1]),
                    e[EnvNames[2]], EnvNames[2]),
            e[EnvNames[3]], EnvNames[3])

\* the exit status of sys.exit() called without an argument
SysExitStatus == 0

MissingVariableText == "Otsutstvuet obyazatelnaya peremennaya okruzheniya "

\* check_tokens(): [exit |-> whether sys.exit() is called, critical |-> the
\* message logged with severity CRITICAL, status |-> the exit status]
\* check_tokens() testing `var is None` in place of `not var`
check_tokens_none_only(e) ==
    LET variables == TokenVariables(e)
        bad == {i \in 1..Len(variables) : variables[i][1] = JNull}
    IN  IF bad = {}
        THEN [exit |-> FALSE, critical |-> "", status |-> SysExitStatus]
        ELSE [exit |-> TRUE, status |-> SysExitStatus,
              critical |-> MissingVariableText \o
                           variables[CHOOSE i \in bad : \A j \in bad : i <= j][2]]

check_tokens(e) ==
    LET variables == TokenVariables(e)
        bad == {i \in 1..Len(variables) : ~Truthy(variables[i][1])}
    IN  IF bad = {}
        THEN [exit |-> FALSE, critical |-> "", status |-> SysExitStatus]
        ELSE [exit |-> TRUE, status |-> SysExitStatus,
              critical |-> MissingVariableText \o
                           variables[CHOOSE i \in bad : \A j \in bad : i <= j][2]]

(***************************************************************************)
(* send_message                                                            *)
(***************************************************************************)
\* what bot.send_message does: it delivers, or raises TelegramError (the
\* library reports its network and API failures as subclasses of it)
SendOutcomes == {"delivered", "TelegramError"}

\* send_message without the except clause
send_message_propagating(text, outcome) ==
    IF outcome = "TelegramError"
    THEN Raise("TelegramError", "delivery failed")
    ELSE Ok(JNull)

\* send_message(bot, message): the TelegramError is logged, never re-raised
send_message(text, outcome) == Ok(JNull)

(***************************************************************************)
(* get_api_answer                                                          *)
(***************************************************************************)
InvalidJson == <<"invalid_json">>

\* no request made yet in this iteration
NoHttp == [kind |-> "none", status |-> 0, body |-> Unbound]

\* what requests.get does: it raises, or returns a response
HttpFailed == [kind |-> "transport_error", status |-> 0, body |-> Unbound]
HttpResponse(status, body) == [kind |-> "response", status |-> status, body |-> body]

UnavailableText(status) ==
    "Endpoint " \o ENDPOINT \o " nedostupen. Kod otveta API: " \o IntStr(status)

\* get_api_answer(timestamp), given what requests.get does
get_api_answer(ts, h) ==
    IF h.kind = "transport_error"
    THEN Raise("ConnectionError", "connection failed")
    ELSE IF h.status # HTTP_OK
    THEN Raise("HTTPStatusError", UnavailableText(h.status))
    ELSE IF h.body = InvalidJson
    THEN Raise("JSONDecodeError", "invalid json")
    ELSE Ok(h.body)

(***************************************************************************)
(* check_response                                                          *)
(***************************************************************************)
EmptyText == "Vozvrat pustogo slovarya"
BadTypeText(type) == "Nekorrektnyi tip dannykh: <class '" \o type \o "'>"
BadKeyText(key) == "Klyuch " \o key \o " v slovare otsutstvuet"

AllowedKeys == {"homeworks", "current_date"}

\* the dict {type(response): dict, type(response.get('homeworks')): list}
TypeChecks(resp) ==
    DictSet(DictSet(<<>>, TypeName(resp), "dict"),
            TypeName(DictGet(resp, "homeworks")), "list")

\* check_response(response)
check_response(resp) ==
    IF ~Truthy(resp) THEN Raise("EmptyValueError", EmptyText)
    ELSE IF Tag(resp) # "dict" THEN NoGetAttr(resp)
    ELSE LET checks == TypeChecks(resp)
             wrong == {i \in 1..Len(checks) : checks[i][1] # checks[i][2]}
             keys == {i \in 1..Len(Val(resp)) : Val(resp)[i][1] \notin AllowedKeys}
             hw == Val(DictGet(resp, "homeworks"))
         IN  IF wrong # {}
             THEN Raise("UnexpectedValueError",
                        BadTypeText(checks[CHOOSE i \in wrong : \A j \in wrong : i <= j][1]))
             ELSE IF keys # {}
             THEN Raise("KeyError", "'" \o BadKeyText(
                             Val(resp)[CHOOSE i \in keys : \A j \in keys : i <= j][1])
                         \o "'")
             ELSE IF Len(hw) > 0 THEN Ok(hw[1])
             ELSE Ok(JNull)

(***************************************************************************)
(* parse_status                                                            *)
(***************************************************************************)
ChangedText(name, verdict) ==
    "Izmenilsya status proverki raboty \"" \o name \o "\". " \o verdict

UnexpectedStatusText == "Status proverki ne sootvetstvuet ozhidaemym variantam: "

\* parse_status leaving the homework name out of the message
parse_status_nameless(homework) ==
    IF Tag(homework) # "dict" THEN NoGetAttr(homework)
    ELSE LET status == DictGet(homework, "status")
         IN  IF Tag(status) \in {"list", "dict"}
             THEN Raise("TypeError", "unhashable type: '" \o TypeName(status) \o "'")
             ELSE IF Tag(status) = "str" /\ Val(status) \in VerdictCodes
             THEN Ok(JStr(ChangedText("", HOMEWORK_VERDICTS[Val(status)])))
             ELSE Ok(JStr(UnexpectedStatusText \o PyRepr(status)))

\* parse_status without the except clause: the KeyError propagates
parse_status_raising(homework) ==
    IF Tag(homework) # "dict" THEN NoGetAttr(homework)
    ELSE LET homework_name == DictGet(homework, "homework_name")
             status == DictGet(homework, "status")
         IN  IF Tag(status) \in {"list", "dict"}
             THEN Raise("TypeError", "unhashable type: '" \o TypeName(status) \o "'")
             ELSE IF Tag(status) = "str" /\ Val(status) \in VerdictCodes
             THEN Ok(JStr(ChangedText(PyStr(homework_name),
                                      HOMEWORK_VERDICTS[Val(status)])))
             ELSE Raise("KeyError", PyRepr(status))

\* parse_status(homework)
parse_status(homework) ==
    IF Tag(homework) # "dict" THEN NoGetAttr(homework)
    ELSE LET homework_name == DictGet(homework, "homework_name")
             status == DictGet(homework, "status")
         IN  IF Tag(status) \in {"list", "dict"}
             THEN Raise("TypeError", "unhashable type: '" \o TypeName(status) \o "'")
             ELSE IF Tag(status) = "str" /\ Val(status) \in VerdictCodes
             THEN Ok(JStr(ChangedText(PyStr(homework_name),
                                      HOMEWORK_VERDICTS[Val(status)])))
             ELSE Ok(JStr(UnexpectedStatusText \o PyRepr(status)))


(***************************************************************************)
(* What the API can answer                                                 *)
(***************************************************************************)
Dates == {JInt(1700000000 + d) : d \in 0..(MaxDate - 1)}

Statuses == {JStr("approved"), JStr("reviewing"), JStr("rejected"),
             JStr("unknown"), JStr(""), JList(<<>>)}

\* a dict with the given fields; a field whose value is Unbound is absent
MkDict(pairs) == JDict(SelectSeq(pairs, LAMBDA p : p[2] # Unbound))

Absent(S) == S \cup {Unbound}

\* first elements of the homeworks list: records with or without a name and
\* a status, and elements that are not records
FirstRecords ==
    {MkDict(<< <<"homework_name", n>>, <<"status", s>> >>) :
        n \in Absent({JStr("hw1")}), s \in Absent(Statuses)}
    \cup {JStr("x")}

LaterRecords ==
    {MkDict(<< <<"homework_name", JStr("hw0")>>, <<"status", JStr("rejected")>> >>),
     JStr("y")}

RECURSIVE SeqsUpTo(_, _)
\* the sequences over S of length at most n
SeqsUpTo(S, n) ==
    IF n = 0 THEN {<<>>}
    ELSE {<<>>} \cup {<<x>> \o t : x \in S, t \in SeqsUpTo(S, n - 1)}

HomeworkLists ==
    {<<>>} \cup {<<r>> \o t : r \in FirstRecords,
                            t \in SeqsUpTo(LaterRecords, MaxHomeworks - 1)}

HomeworksValues ==
    {JList(l) : l \in HomeworkLists}
    \cup {JStr("not-a-list"), JNull, JDict(<< <<"status", JStr("approved")>> >>)}

\* the documents that are mappings
Mappings ==
    {MkDict(<< <<"homeworks", h>>, <<"current_date", d>>, <<"code", c>> >>) :
        h \in Absent(HomeworksValues), d \in Absent(Dates),
        c \in Absent({JStr("not_authenticated")})}

\* the documents that are not mappings
NonMappings ==
    {JNull, JInt(0), JInt(7), JStr(""), JStr("abc"), JList(<<>>),
     JList(<<JStr("x")>>)}

Documents == Mappings \cup NonMappings

ErrorStatuses == {404, 500}

HttpResults ==
    {HttpFailed}
    \cup {HttpResponse(HTTP_OK, b) : b \in Documents \cup {InvalidJson}}
    \cup {HttpResponse(c, MkDict(<< <<"current_date", d>> >>)) :
            c \in ErrorStatuses, d \in Dates}

(***************************************************************************)
(* main                                                                    *)
(***************************************************************************)
\* os.getenv gives None for an unset variable, else its string value
EnvValues == {JNull, JStr(""), JStr("token")}

\* the classes deriving from Exception, which `except Exception` catches
ExceptionClasses ==
    {"HTTPStatusError", "EmptyValueError", "UnexpectedValueError", "KeyError",
     "IndexError", "AttributeError", "TypeError", "ConnectionError",
     "JSONDecodeError", "TelegramError"}

OwnExceptionClasses ==
    {"HTTPStatusError", "EmptyValueError", "UnexpectedValueError"}

\* an except clause naming only the program's own exception classes
CaughtByMain_own_only(exc) == exc.kind \in OwnExceptionClasses

\* except Exception as error
CaughtByMain(exc) == exc.kind \in ExceptionClasses

\* the loop without the `if check_result` test
ShouldNotify_always(result) == TRUE

\* if check_result:
ShouldNotify(result) == Truthy(result)

\* the failure message without the error
FailureText_bare(exc) == "Sboi v rabote programmy"

\* f'Сбой в работе программы: {error}'
FailureText(exc) == "Sboi v rabote programmy: " \o exc.text

Init ==
    /\ env \in [{EnvNames[i] : i \in 1..Len(EnvNames)} -> EnvValues]
    /\ pc = "main"
    /\ exitCode = Unbound
    /\ timestamp = Unbound
    /\ prevTimestamp = Unbound
    /\ http = NoHttp
    /\ response = Unbound
    /\ check_result = Unbound
    /\ message = Unbound
    /\ raised = NoExc
    /\ sent = <<>>
    /\ calls = <<>>

\* an exception raised inside the try block of the loop: the except block
\* takes it if it catches its class, otherwise it ends the process
Throw(exc) ==
    /\ raised' = exc
    /\ pc' = IF CaughtByMain(exc) THEN "except" ELSE "crashed"

\* check_tokens(), then the set-up before the loop
Startup ==
    /\ pc = "main"
    /\ LET r == check_tokens(env)
       IN  IF r.exit
           THEN /\ pc' = "exited"
                /\ exitCode' = JInt(r.status)
                /\ UNCHANGED <<timestamp, prevTimestamp>>
           ELSE /\ pc' = "get_api_answer"
                /\ timestamp' = JInt(InitialFromDate)
                /\ prevTimestamp' = JInt(InitialFromDate)
                /\ UNCHANGED exitCode
    /\ UNCHANGED <<env, http, response, check_result, message, raised, sent, calls>>

\* response = get_api_answer(timestamp).  updater.start_polling(), called
\* first, starts the library's own update fetching and touches none of the
\* state of this program.
Poll ==
    /\ pc = "get_api_answer"
    /\ \E h \in HttpResults :
         LET r == get_api_answer(timestamp, h)
         IN  /\ http' = h
             /\ IF r.exc # NoExc
                THEN Throw(r.exc) /\ UNCHANGED response
                ELSE /\ response' = r.val
                     /\ pc' = "current_date"
                     /\ UNCHANGED raised
    /\ calls' = Append(calls, "get_api_answer")
    /\ UNCHANGED <<env, exitCode, timestamp, prevTimestamp, check_result, message, sent>>

\* current_date = response.get('current_date')
\* timestamp = {'from_date': current_date}
UpdateCursor ==
    /\ pc = "current_date"
    /\ IF Tag(response) # "dict"
       THEN Throw(NoGetAttr(response).exc) /\ UNCHANGED timestamp
       ELSE /\ timestamp' = DictGet(response, "current_date")
            /\ pc' = "check_response"
            /\ UNCHANGED raised
    /\ UNCHANGED <<env, exitCode, prevTimestamp, http, response, check_result,
                   message, sent, calls>>

\* check_result = check_response(response); if check_result:
Validate ==
    /\ pc = "check_response"
    /\ LET r == check_response(response)
       IN  IF r.exc # NoExc
           THEN Throw(r.exc) /\ UNCHANGED check_result
           ELSE /\ check_result' = r.val
                /\ pc' = IF ShouldNotify(r.val) THEN "parse_status" ELSE "sleep"
                /\ UNCHANGED raised
    /\ calls' = Append(calls, "check_response")
    /\ UNCHANGED <<env, exitCode, timestamp, prevTimestamp, http, response, message,
                   sent>>

\* message = parse_status(check_result)
Format ==
    /\ pc = "parse_status"
    /\ LET r == parse_status(check_result)
       IN  IF r.exc # NoExc
           THEN Throw(r.exc) /\ UNCHANGED message
           ELSE /\ message' = r.val
                /\ pc' = "send_message"
                /\ UNCHANGED raised
    /\ calls' = Append(calls, "parse_status")
    /\ UNCHANGED <<env, exitCode, timestamp, prevTimestamp, http, response,
                   check_result, sent>>

\* send_message(bot, message) in the try block
Notify ==
    /\ pc = "send_message"
    /\ \E o \in SendOutcomes :
         LET r == send_message(Val(message), o)
         IN  /\ sent' = Append(sent, [site |-> "update", text |-> Val(message),
                                      outcome |-> o])
             /\ IF r.exc # NoExc
                THEN Throw(r.exc)
                ELSE pc' = "sleep" /\ UNCHANGED raised
    /\ calls' = Append(calls, "send_message")
    /\ UNCHANGED <<env, exitCode, timestamp, prevTimestamp, http, response,
                   check_result, message>>

\* the except block: build the failure message and send it; an exception
\* raised here is not caught by anything
Except ==
    /\ pc = "except"
    /\ message' = JStr(FailureText(raised))
    /\ \E o \in SendOutcomes :
         LET r == send_message(FailureText(raised), o)
         IN  /\ sent' = Append(sent, [site |-> "failure",
                                      text |-> FailureText(raised),
                                      outcome |-> o])
             /\ IF r.exc # NoExc
                THEN pc' = "crashed"
                ELSE pc' = "sleep"
    /\ calls' = Append(calls, "send_message")
    /\ UNCHANGED <<env, exitCode, timestamp, prevTimestamp, http, response,
                   check_result, raised>>

\* time.sleep(RETRY_PERIOD), then the next iteration begins.  The locals of
\* the finished iteration are all assigned again before they are read, so
\* they are cleared here; prevTimestamp remembers the cursor the new
\* iteration starts with.
Sleep ==
    /\ pc = "sleep"
    /\ pc' = "get_api_answer"
    /\ prevTimestamp' = timestamp
    /\ http' = NoHttp
    /\ response' = Unbound
    /\ check_result' = Unbound
    /\ message' = Unbound
    /\ raised' = NoExc
    /\ sent' = <<>>
    /\ calls' = <<>>
    /\ UNCHANGED <<env, exitCode, timestamp>>

Next ==
    \/ Startup
    \/ Poll
    \/ UpdateCursor
    \/ Validate
    \/ Format
    \/ Notify
    \/ Except
    \/ Sleep

Spec == Init /\ [][Next]_vars

\* the interpreter is the only thread and never stops running it
FairSpec == Spec /\ WF_vars(Next)

(***************************************************************************)
(* check_response on its own, applied to every document                    *)
(***************************************************************************)
InitCheckResponse ==
    /\ env = [n \in {EnvNames[i] : i \in 1..Len(EnvNames)} |-> JStr("token")]
    /\ pc = "call"
    /\ exitCode = Unbound
    /\ timestamp = Unbound
    /\ prevTimestamp = Unbound
    /\ http = NoHttp
    /\ response \in Documents
    /\ check_result = Unbound
    /\ message = Unbound
    /\ raised = NoExc
    /\ sent = <<>>
    /\ calls = <<>>

CallCheckResponse ==
    /\ pc = "call"
    /\ pc' = "return"
    /\ raised' = check_response(response).exc
    /\ check_result' = check_response(response).val
    /\ calls' = Append(calls, "check_response")
    /\ UNCHANGED <<env, exitCode, timestamp, prevTimestamp, http, response,
                   message, sent>>

NextCheckResponse == CallCheckResponse

SpecCheckResponse == InitCheckResponse /\ [][NextCheckResponse]_vars

(***************************************************************************)
(* Properties                                                              *)
(***************************************************************************)
\* a required environment variable is unset or empty
AnyMissing == \E n \in DOMAIN env : env[n] = JNull \/ env[n] = JStr("")

\* the poll of this iteration returned status 200 with a JSON mapping
PolledMapping ==
    /\ http.kind = "response"
    /\ http.status = 200
    /\ Tag(http.body) = "dict"

\* the keys of the polled mapping
PolledKeys == {Val(http.body)[i][1] : i \in 1..Len(Val(http.body))}

\* the polled mapping is {homeworks: <a list>, current_date: <an integer>}
PolledWellFormed ==
    /\ PolledMapping
    /\ PolledKeys = {"homeworks", "current_date"}
    /\ Tag(DictGet(http.body, "homeworks")) = "list"
    /\ Tag(DictGet(http.body, "current_date")) = "int"

PolledList == Val(DictGet(http.body, "homeworks"))

\* the status of the record check_response returned is absent, or a string
\* outside the recognized set
UnrecognizedStatus ==
    /\ check_result # Unbound
    /\ Tag(check_result) = "dict"
    /\ Len(Val(check_result)) > 0
    /\ LET st == DictGet(check_result, "status")
       IN  \/ Tag(st) = "null"
           \/ Tag(st) = "str" /\ Val(st) \notin {"approved", "reviewing", "rejected"}

\* C1: if any of the three required environment variables is missing or
\* empty, the process ends in check_tokens: the loop is never entered, no
\* HTTP GET is made and no message send is attempted.
C1_MissingTokenStopsStartup ==
    AnyMissing =>
        /\ pc \in {"main", "exited"}
        /\ http = NoHttp
        /\ timestamp = Unbound
        /\ sent = <<>>
        /\ calls = <<>>

C1_Witness ==
    /\ pc = "exited"
    /\ env["PRACTICUM_TOKEN"] = JStr("token")
    /\ env["TELEGRAM_TOKEN"] = JStr("token")
    /\ env["TELEGRAM_CHAT_ID"] = JStr("")

\* C2 as stated: for a polled record whose status is outside the recognized
\* set, parse_status fails and no message is sent in that iteration.
C2_UnrecognizedStatusSendsNothing ==
    (pc = "sleep" /\ UnrecognizedStatus) =>
        /\ raised.kind = "KeyError"
        /\ sent = <<>>

\* C2 amended: for a record returned by check_response whose status is
\* absent or a string outside the recognized set, parse_status does not
\* raise but returns the unrecognized-status text, and the iteration makes
\* exactly one send attempt, on the normal path, carrying that text.
C2_UnrecognizedStatusIsSent ==
    (pc = "sleep" /\ UnrecognizedStatus) =>
        /\ raised = NoExc
        /\ calls = <<"get_api_answer", "check_response", "parse_status",
                     "send_message">>
        /\ Len(sent) = 1
        /\ sent[1].site = "update"
        /\ sent[1].text =
             "Status proverki ne sootvetstvuet ozhidaemym variantam: " \o
             (LET st == DictGet(check_result, "status")
              IN  IF Tag(st) = "null" THEN "None" ELSE "'" \o Val(st) \o "'")

C2_Witness ==
    /\ pc = "sleep"
    /\ UnrecognizedStatus
    /\ DictGet(check_result, "status") = JStr("unknown")
    /\ Len(sent) = 1

\* C3: when the poll returns 200 with {homeworks: [], current_date: T},
\* check_response returns the no-update sentinel, the cursor becomes T, and
\* neither parse_status nor send_message is called in that iteration.
C3_NoUpdateSendsNothing ==
    (PolledWellFormed /\ PolledList = <<>>) =>
        /\ sent = <<>>
        /\ \A i \in 1..Len(calls) : calls[i] \notin {"parse_status", "send_message"}
        /\ pc \in {"current_date", "check_response", "sleep"}
        /\ pc = "sleep" =>
             /\ check_result = JNull
             /\ timestamp = DictGet(http.body, "current_date")
             /\ calls = <<"get_api_answer", "check_response">>

C3_Witness ==
    /\ pc = "sleep"
    /\ PolledWellFormed
    /\ PolledList = <<>>
    /\ prevTimestamp = JInt(1700000000)
    /\ timestamp = JInt(1700000001)

\* the first record of the polled list has a name and a recognized status
FirstRecordRecognized ==
    /\ PolledWellFormed
    /\ Len(PolledList) > 0
    /\ Tag(PolledList[1]) = "dict"
    /\ Tag(DictGet(PolledList[1], "homework_name")) = "str"
    /\ Tag(DictGet(PolledList[1], "status")) = "str"
    /\ Val(DictGet(PolledList[1], "status")) \in {"approved", "reviewing", "rejected"}

\* C4: when the poll returns 200 with {homeworks: [r, ...], current_date: T}
\* and r has a name n and a recognized status s, the iteration makes exactly
\* one send attempt, whose text is the status-changed template with n and
\* the verdict of s, and the cursor is T when the loop sleeps.
C4_StatusChangeIsSentOnce ==
    (pc = "sleep" /\ FirstRecordRecognized) =>
        /\ Len(sent) = 1
        /\ sent[1].text =
             "Izmenilsya status proverki raboty \"" \o
             Val(DictGet(PolledList[1], "homework_name")) \o "\". " \o
             HOMEWORK_VERDICTS[Val(DictGet(PolledList[1], "status"))]
        /\ timestamp = DictGet(http.body, "current_date")

C4_Witness ==
    /\ pc = "sleep"
    /\ FirstRecordRecognized
    /\ Len(PolledList) = 2
    /\ sent = << [site |-> "update", outcome |-> "delivered",
                  text |-> "Izmenilsya status proverki raboty \"hw1\". Rabota proverena: revyueru vsyo ponravilos. Ura!"] >>
    /\ timestamp = JInt(1700000000)

InLoop ==
    pc \in {"get_api_answer", "current_date", "check_response", "parse_status",
            "send_message", "except"}

\* C5: once the loop is entered it never ends: every iteration, whatever its
\* outcome, reaches the sleep, and every sleep is followed by another poll.
C5_LoopNeverEnds ==
    /\ [](InLoop => <>(pc = "sleep"))
    /\ [](pc = "sleep" => <>(pc = "get_api_answer"))

C5_Witness ==
    /\ pc = "sleep"
    /\ prevTimestamp = JNull
    /\ raised.kind = "ConnectionError"
    /\ Len(sent) = 1
    /\ sent[1].outcome = "TelegramError"

\* C6: whenever polling, validating or formatting raises, the loop catches it
\* and makes exactly one send attempt in that iteration, whose text carries
\* the error text; so for a non-200 status, an empty response, a wrongly
\* typed homeworks value and an unexpected field.
C6_FailureIsReportedOnce ==
    (pc \in {"sleep", "crashed"}) =>
        /\ raised # NoExc =>
             /\ pc = "sleep"
             /\ Len(sent) = 1
             /\ sent[1].site = "failure"
             /\ sent[1].text = "Sboi v rabote programmy: " \o raised.text
        /\ (http.kind = "response" /\ http.status # 200) =>
             /\ raised.kind = "HTTPStatusError"
             /\ raised.text = "Endpoint " \o ENDPOINT \o
                              " nedostupen. Kod otveta API: " \o IntStr(http.status)
        /\ (PolledMapping /\ Val(http.body) = <<>>) =>
             raised = Exc("EmptyValueError", "Vozvrat pustogo slovarya")
        /\ (PolledMapping /\ Tag(DictGet(http.body, "homeworks")) = "str") =>
             raised.kind = "UnexpectedValueError"
        /\ (PolledMapping /\ Tag(DictGet(http.body, "homeworks")) = "list"
                          /\ "code" \in PolledKeys) =>
             raised = Exc("KeyError", "'Klyuch code v slovare otsutstvuet'")
        /\ (check_result # Unbound /\ Tag(check_result) = "str"
                                    /\ Val(check_result) # "") =>
             raised.kind = "AttributeError"
        /\ (check_result # Unbound /\ Tag(check_result) = "dict"
                /\ Tag(DictGet(check_result, "status")) = "list") =>
             raised = Exc("TypeError", "unhashable type: 'list'")

C6_Witness ==
    /\ pc = "sleep"
    /\ raised.kind = "KeyError"
    /\ Len(sent) = 1
    /\ sent[1].site = "failure"

\* C7: a failed delivery in send_message is never propagated: on the normal
\* send or on the failure-report send alike it does not enter the failure
\* path, no further send attempt follows it in the iteration, and the
\* iteration goes on to sleep.
C7_FailedDeliveryIsSwallowed ==
    \A i \in 1..Len(sent) :
        sent[i].outcome = "TelegramError" =>
            /\ pc = "sleep"
            /\ Len(sent) = 1
            /\ sent[i].site = "update" => raised = NoExc
            /\ sent[i].site = "failure" => raised.kind # "TelegramError"

C7_Witness ==
    /\ pc = "sleep"
    /\ Len(sent) = 1
    /\ sent[1].site = "update"
    /\ sent[1].outcome = "TelegramError"
    /\ raised = NoExc

\* C8: at the end of every iteration the cursor equals the current_date the
\* API returned in that iteration if one was present, and otherwise the
\* value it had before the iteration.
C8_CursorFollowsApi ==
    pc = "sleep" =>
        timestamp = IF PolledMapping /\ "current_date" \in PolledKeys
                    THEN DictGet(http.body, "current_date")
                    ELSE prevTimestamp

\* C9: when check_tokens ends the process because a required variable is
\* missing, the exit code is non-zero.
C9_ExitCodeNonZero ==
    pc = "exited" => (Tag(exitCode) = "int" /\ Val(exitCode) # 0)

\* C10: for every input that is not a mapping and every mapping whose
\* homeworks value is not a list, check_response fails with the
\* schema-violation error the validator raises itself.
C10_WrongTypeIsSchemaViolation ==
    (pc = "return" /\ (\/ Tag(response) # "dict"
                       \/ Tag(DictGet(response, "homeworks")) # "list")) =>
        raised.kind = "UnexpectedValueError"

====
